---- MODULE Spec2Model ----
(***************************************************************************)
(* CourierLift backend: the order table and the order status state machine *)
(* of backend/orders.py (quote, create, status update), the tracking rooms  *)
(* of backend/tracking.py and the quote engine of backend/quote_engine.py,  *)
(* as state machines.                                                       *)
(*                                                                         *)
(* Numbers.  The code computes in floating point; the model computes in    *)
(* fixed point and says so in every name's comment:                        *)
(*   degrees      -> hundredths of a degree   (fake_geocode's own grid)    *)
(*   miles        -> hundredths of a mile                                  *)
(*   factors      -> thousandths                                           *)
(*   money        -> thousandths of a dollar inside compute_quote, cents   *)
(*                   once rounded (round(x, 2))                            *)
(*   pounds       -> thousandths of a pound                                *)
(* Text.  An address is the sequence of its character codes, so that       *)
(* strip() and sum(ord(c)) are computed and not assumed.                   *)
(***************************************************************************)
EXTENDS Integers, Sequences, FiniteSets, Bags, TLC

VARIABLES
    orders,     \* the orders table: row i is the Order with id i
    call,       \* the HTTP exchange being answered: the request, what the
                \* handler read, and the status code it answers with
    inflight,   \* concurrent PATCH requests between their read and their commit
    commits,    \* history: the last status write committed by such a request
    rooms,      \* tracking.py, manager.rooms: order_id -> set of WebSocket handles
    conn,       \* each WebSocket's ws_track coroutine: where it is suspended,
                \* its query parameters and its local variables
    transport,  \* each WebSocket's transport, as the peer left it
    inbox,      \* what each WebSocket's client has received: a bag of payloads
    texts,      \* how many text frames the clients have sent so far
    did,        \* history: the last call made on the manager directly
    estimate,   \* quote_engine.py: the last estimate_quote call and its result
    earlier,    \* history: the estimate_quote call the caller made before, when
                \* the last one asks again for a longer trip
    located,    \* the last fake_geocode call and the point it returned
    quoted      \* the last request to a quote route and what it answered

\* the state of backend/orders.py
ordering == <<orders, call, inflight, commits>>

\* the state of backend/tracking.py
tracking == <<rooms, conn, transport, inbox, texts, did>>

\* the state of the callers of estimate_quote, fake_geocode and the quote routes
quoting == <<estimate, earlier, located, quoted>>

vars == <<orders, call, inflight, commits, rooms, conn, transport, inbox, texts, did,
          estimate, earlier, located, quoted>>

----------------------------------------------------------------------------
(* Bounds of the model *)

\* at most this many orders are created in a run
MaxOrders == 2

\* at most this many PATCH requests are in flight at once (SpecConc)
MaxInflight == 2

\* at most this many orders are created in a run of SpecConc
MaxOrdersConc == 1

\* at most this many text frames are sent by the clients in a run
MaxTexts == 1

\* at most this many peers go away in a run
MaxCloses == 1

----------------------------------------------------------------------------
(* models.py *)

\* UserRole
UserRole == {"customer", "courier", "merchant", "admin"}

\* OrderStatus
OrderStatus == {"pending", "assigned", "picked_up", "delivered", "canceled"}

\* The users table: row i is the User with id i.  Accounts are made by the
\* auth routes before any order exists; the order routes only read them.
Users == <<"customer", "customer", "courier", "merchant", "admin">>

UserIds == 1..Len(Users)

----------------------------------------------------------------------------
(* Python helpers *)

\* Python's `x or d` on a number: d when x is falsy (0, 0.0 or None)
OrElse(x, d) == IF x = 0 THEN d ELSE x

\* Python's `x or d` on a string: d when x is falsy ("" or None)
OrElseStr(x, d) == IF x = "" THEN d ELSE x

Max(a, b) == IF a >= b THEN a ELSE b

Min(a, b) == IF a <= b THEN a ELSE b

\* str.isspace of one character code: space, \t, \n, \v, \f, \r, the four
\* separators FS to US, NEL, the no-break space and the spaces of Unicode
IsSpace(c) ==
    c \in {32, 9, 10, 11, 12, 13, 28, 29, 30, 31, 133, 160, 5760, 8232, 8233, 8239,
           8287, 12288} \cup (8192..8202)

\* str.strip(): drop leading and trailing whitespace
RECURSIVE LStrip(_)
LStrip(s) == IF s # <<>> /\ IsSpace(Head(s)) THEN LStrip(Tail(s)) ELSE s

RECURSIVE RStrip(_)
RStrip(s) ==
    IF s # <<>> /\ IsSpace(s[Len(s)]) THEN RStrip(SubSeq(s, 1, Len(s) - 1)) ELSE s

Strip(s) == RStrip(LStrip(s))

\* sum(ord(c) for c in s)
RECURSIVE OrdSum(_)
OrdSum(s) == IF s = <<>> THEN 0 ELSE Head(s) + OrdSum(Tail(s))

\* str.lower() on the category words the requests of the model carry
Lower(w) ==
    CASE w = "Van" -> "van"
      [] w = "Car" -> "car"
      [] w = "Fragile" -> "fragile"
      [] OTHER -> w

\* floor of the square root, by bisection on [lo, hi]
RECURSIVE SqrtIn(_, _, _)
SqrtIn(n, lo, hi) ==
    IF lo >= hi THEN lo
    ELSE LET mid == (lo + hi + 1) \div 2
         IN IF mid * mid <= n THEN SqrtIn(n, mid, hi) ELSE SqrtIn(n, lo, mid - 1)

ISqrt(n) == SqrtIn(n, 0, 46340)

\* round(x, 2) of an amount in thousandths of a dollar, in cents
Round2(milli) == (milli + 5) \div 10

\* fixed-point product of an amount and a factor in thousandths
Scale(x, permille) == (x * permille) \div 1000

----------------------------------------------------------------------------
(* orders.py: the quote *)

None == "None"

\* fake_geocode: (lat, lng) in hundredths of a degree, or None
fake_geocode(addr) ==
    IF addr = <<>> \/ Strip(addr) = <<>> THEN None
    ELSE LET total == OrdSum(addr)
         IN <<3000 + (total % 5000), -10000 - (total % 5000)>>

\* haversine_like: hundredths of a mile, at least half a mile
haversine_like(pu, do) ==
    LET d2 == (pu[1] - do[1]) * (pu[1] - do[1]) + (pu[2] - do[2]) * (pu[2] - do[2])
    IN Max(50, ISqrt(d2 * 69 * 69))

\* vehicle_multiplier, in thousandths
vehicle_multiplier(vehicle) ==
    CASE vehicle = "bike" -> 1000
      [] vehicle = "car" -> 1200
      [] vehicle = "van" -> 1500
      [] vehicle = "truck" -> 2000
      [] OTHER -> 1200

\* item_tier.  The item types of the model are single words, on which the
\* code's substring test (k in t) is the membership below.
item_tier(item_type) ==
    LET t == Lower(item_type)
    IN CASE t \in {"fragile", "glass", "art"} -> "fragile"
         [] t \in {"food", "meal", "grocery"} -> "perishable"
         [] t \in {"electronics", "laptop", "tv"} -> "electronics"
         [] OTHER -> "standard"

\* hasattr(data, k)
HasAttr(data, k) == k \in DOMAIN data

\* compute_quote: a QuoteResponse, or the status code of the HTTPException
compute_quote(data) ==
    LET pu0 == IF HasAttr(data, "pickup_addr") THEN fake_geocode(data.pickup_addr) ELSE None
        do0 == IF HasAttr(data, "dropoff_addr") THEN fake_geocode(data.dropoff_addr) ELSE None
        coords == pu0 = None
                    /\ \A k \in {"pickup_lat", "pickup_lng", "dropoff_lat", "dropoff_lng"} :
                          HasAttr(data, k)
        pu == IF coords THEN <<data.pickup_lat, data.pickup_lng>> ELSE pu0
        do == IF coords THEN <<data.dropoff_lat, data.dropoff_lng>> ELSE do0
    IN IF pu = None \/ do = None THEN [error |-> 400]
       ELSE LET miles == haversine_like(pu, do)
                base == 3500
                per_mile == Scale(1750, vehicle_multiplier(data.vehicle))
                qty_factor == Max(1000, OrElse(data.quantity, 1) * 900)
                weight_factor == 1000 + Min(800, OrElse(data.weight_lb, 0) \div 100)
                size_factor ==
                    1000 + Min(600,
                               (OrElse(data.length_in, 12) * OrElse(data.width_in, 8)
                                  * OrElse(data.height_in, 6) * 200) \div 1728)
                price ==
                    Round2(Scale(Scale(Scale(base + (miles * per_mile) \div 100,
                                             qty_factor), weight_factor), size_factor))
                eta == Max(10, (miles * 3) \div 100)
            IN [error |-> 0, price |-> price, eta |-> eta, miles |-> miles,
                tier |-> item_tier(IF HasAttr(data, "item_type") THEN data.item_type ELSE "")]

\* fake_geocode not called yet
NoLocation == [addr |-> None, point |-> None]

\* the addresses fake_geocode is called with, as character codes: "A" and one
\* more character of every code under 5000, so that the sum takes every value
\* modulo 5000; "A" alone and with blanks around it; one character of code
\* 5000; and the empty address and addresses of whitespace only
Addresses ==
    {<<65, c>> : c \in 0..4999}
        \cup {<<65>>, <<32, 65>>, <<9, 65, 32>>, <<5000>>}
        \cup {<<>>, <<32>>, <<9, 32>>, <<160, 12288>>}

\* a caller calls fake_geocode on an address and holds the point
geocode_call ==
    /\ located = NoLocation
    /\ \E addr \in Addresses :
          located' = [addr |-> addr, point |-> fake_geocode(addr)]
    /\ UNCHANGED <<ordering, tracking, estimate, earlier, quoted>>

\* the caller is done with the point
geocode_done ==
    /\ located # NoLocation
    /\ located' = NoLocation
    /\ UNCHANGED <<ordering, tracking, estimate, earlier, quoted>>

\* no request to a quote route in progress
NoQuote == [route |-> "", body |-> None, response |-> [error |-> 0]]

----------------------------------------------------------------------------
(* The requests of the model *)

\* Bodies of POST /orders (schemas.OrderCreate): coordinates in hundredths of
\* a degree, weight in thousandths of a pound, sizes in inches.
OrderCreateBodies ==
    { [pickup_lat |-> 3114, pickup_lng |-> -10114, dropoff_lat |-> 3116,
       dropoff_lng |-> -10116, vehicle |-> "van", item_type |-> "fragile",
       quantity |-> 1, weight_lb |-> 6613, length_in |-> 24, width_in |-> 8,
       height_in |-> 6, weather |-> "clear", traffic |-> "med"] }

\* Bodies of POST /orders/create_compat (a dict): addresses as character
\* codes, weight in whole kilograms; 0 and "" stand for an absent key.  The
\* first is the delivery of OrderCreateBodies as this route takes it (" A1"
\* to "B2 ", 3 kg); the second has a blank origin.
CompatBodies ==
    { [origin |-> <<32, 65, 49>>, destination |-> <<66, 50, 32>>, vehicle |-> "Van",
       item_type |-> "Fragile", quantity |-> 0, weight_kg |-> 3, length_in |-> 24,
       width_in |-> 0, height_in |-> 0],
      [origin |-> <<32, 9>>, destination |-> <<66, 50>>, vehicle |-> "",
       item_type |-> "", quantity |-> 1, weight_kg |-> 0, length_in |-> 0,
       width_in |-> 0, height_in |-> 0] }

\* Bodies of PATCH /orders/{id}/status: the five statuses and a word that is
\* none of them
StatusBodies == OrderStatus \cup {"shipped"}

\* order ids a request may name: every id a run can create, and one more
OrderIds == 1..(MaxOrders + 1)

----------------------------------------------------------------------------
(* The HTTP exchange *)

Idle ==
    [op |-> "idle", user |-> 0, order_id |-> 0, status |-> "", seen |-> "", code |-> 0]

\* `seen` is the status of the row the handler loaded ("" when it loaded none)
Exchange(op, user, order_id, status, seen, code) ==
    [op |-> op, user |-> user, order_id |-> order_id, status |-> status,
     seen |-> seen, code |-> code]

\* db.add(order); db.commit(): the table with the new row, its id the next one
Insert(table, row) == Append(table, [row EXCEPT !.id = Len(table) + 1])

----------------------------------------------------------------------------
(* orders.py: the create routes *)

\* create_order, POST /orders
create_order(u, payload) ==
    /\ call = Idle
    /\ Len(orders) < MaxOrders
    /\ LET pu0 == IF HasAttr(payload, "pickup_addr")
                  THEN fake_geocode(payload.pickup_addr) ELSE None
           do0 == IF HasAttr(payload, "dropoff_addr")
                  THEN fake_geocode(payload.dropoff_addr) ELSE None
           coords == pu0 = None
                       /\ \A k \in {"pickup_lat", "pickup_lng", "dropoff_lat", "dropoff_lng"} :
                             HasAttr(payload, k)
           pu == IF coords THEN <<payload.pickup_lat, payload.pickup_lng>> ELSE pu0
           do == IF coords THEN <<payload.dropoff_lat, payload.dropoff_lng>> ELSE do0
           quote == compute_quote(payload)
           order == [id |-> 0, user_id |-> u,
                     pickup_lat |-> pu[1], pickup_lng |-> pu[2],
                     dropoff_lat |-> do[1], dropoff_lng |-> do[2],
                     vehicle |-> payload.vehicle,
                     item_type |-> IF HasAttr(payload, "item_type")
                                   THEN payload.item_type ELSE "standard",
                     quantity |-> OrElse(payload.quantity, 1),
                     weight_lb |-> OrElse(payload.weight_lb, 0),
                     length_in |-> OrElse(payload.length_in, 12),
                     width_in |-> OrElse(payload.width_in, 8),
                     height_in |-> OrElse(payload.height_in, 6),
                     price |-> quote.price, eta_min |-> quote.eta,
                     status |-> "pending"]
       IN IF pu = None \/ do = None \/ quote.error # 0
          THEN /\ call' = Exchange("create_order", u, 0, "", "", 400)
               /\ orders' = orders
          ELSE /\ orders' = Insert(orders, order)
               /\ call' = Exchange("create_order", u, Len(orders) + 1, "", "", 201)
    /\ UNCHANGED <<inflight, commits, tracking, quoting>>

\* create_order_compat, POST /orders/create_compat
create_order_compat(u, payload) ==
    /\ call = Idle
    /\ Len(orders) < MaxOrders
    /\ LET origin == Strip(payload.origin)
           destination == Strip(payload.destination)
           vehicle == Lower(OrElseStr(payload.vehicle, "car"))
           item_type == Lower(OrElseStr(payload.item_type, "standard"))
           quantity == OrElse(payload.quantity, 1)
           weight_lb == (OrElse(payload.weight_kg, 0) * 220462) \div 100
           length_in == OrElse(payload.length_in, 12)
           width_in == OrElse(payload.width_in, 8)
           height_in == OrElse(payload.height_in, 6)
           pu == fake_geocode(origin)
           do == fake_geocode(destination)
           q == [pickup_addr |-> origin, dropoff_addr |-> destination,
                 vehicle |-> vehicle, item_type |-> item_type, quantity |-> quantity,
                 weight_lb |-> weight_lb, length_in |-> length_in,
                 width_in |-> width_in, height_in |-> height_in]
           quote == compute_quote(q)
           order == [id |-> 0, user_id |-> u,
                     pickup_lat |-> pu[1], pickup_lng |-> pu[2],
                     dropoff_lat |-> do[1], dropoff_lng |-> do[2],
                     vehicle |-> vehicle, item_type |-> item_type,
                     quantity |-> quantity, weight_lb |-> weight_lb,
                     length_in |-> length_in, width_in |-> width_in,
                     height_in |-> height_in,
                     price |-> quote.price, eta_min |-> quote.eta,
                     status |-> "pending"]
       IN IF origin = <<>> \/ destination = <<>>
          THEN /\ call' = Exchange("create_order_compat", u, 0, "", "", 422)
               /\ orders' = orders
          ELSE IF pu = None \/ do = None \/ quote.error # 0
          THEN /\ call' = Exchange("create_order_compat", u, 0, "", "", 400)
               /\ orders' = orders
          ELSE /\ orders' = Insert(orders, order)
               /\ call' = Exchange("create_order_compat", u, Len(orders) + 1, "", "", 201)
    /\ UNCHANGED <<inflight, commits, tracking, quoting>>

----------------------------------------------------------------------------
(* orders.py: the quote routes *)

\* Bodies of POST /quote and POST /orders (schemas.QuoteRequest, OrderCreate),
\* in the units of OrderCreateBodies: the delivery of OrderCreateBodies, a
\* bike taking a one-inch cube nowhere, and a truck going six degrees north
QuoteBodies ==
    OrderCreateBodies
        \cup { [pickup_lat |-> 3114, pickup_lng |-> -10114, dropoff_lat |-> 3114,
                dropoff_lng |-> -10114, vehicle |-> "bike", item_type |-> "general",
                quantity |-> 1, weight_lb |-> 0, length_in |-> 1, width_in |-> 1,
                height_in |-> 1, weather |-> "clear", traffic |-> "med"],
               [pickup_lat |-> 3114, pickup_lng |-> -10114, dropoff_lat |-> 3714,
                dropoff_lng |-> -10114, vehicle |-> "truck", item_type |-> "general",
                quantity |-> 1, weight_lb |-> 0, length_in |-> 12, width_in |-> 8,
                height_in |-> 6, weather |-> "clear", traffic |-> "med"] }

\* quote_price, POST /quote (lines 80-82)
quote_price(payload) ==
    /\ quoted.route = ""
    /\ quoted' = [route |-> "quote_price", body |-> payload,
                  response |-> compute_quote(payload)]
    /\ UNCHANGED <<ordering, tracking, estimate, earlier, located>>

\* quote_estimate, POST /quote/estimate (lines 85-110); weight_kg in whole
\* kilograms, 0 and "" for an absent key
quote_estimate(payload) ==
    /\ quoted.route = ""
    /\ LET origin == Strip(payload.origin)
           destination == Strip(payload.destination)
           q == [pickup_addr |-> origin, dropoff_addr |-> destination,
                 vehicle |-> Lower(OrElseStr(payload.vehicle, "car")),
                 item_type |-> Lower(OrElseStr(payload.item_type, "standard")),
                 quantity |-> 1,
                 weight_lb |-> (OrElse(payload.weight_kg, 0) * 220462) \div 100,
                 length_in |-> 12, width_in |-> 8, height_in |-> 6]
           res == compute_quote(q)
       IN quoted' =
             [route |-> "quote_estimate", body |-> payload,
              response |-> IF res.error # 0 THEN res
                           ELSE [error |-> 0, price_total |-> res.price,
                                 eta_min |-> res.eta, miles |-> res.miles,
                                 tier |-> res.tier]]
    /\ UNCHANGED <<ordering, tracking, estimate, earlier, located>>

\* the response is sent
quote_answered ==
    /\ quoted.route # ""
    /\ quoted' = NoQuote
    /\ UNCHANGED <<ordering, tracking, estimate, earlier, located>>

----------------------------------------------------------------------------
(* orders.py: the status state machine *)

\* ALLOWED_CHAIN with an assigned order allowed back to pending
ALLOWED_CHAIN_unassign ==
    [s \in OrderStatus |->
        CASE s = "pending" -> {"assigned", "canceled"}
          [] s = "assigned" -> {"picked_up", "canceled", "pending"}
          [] s = "picked_up" -> {"delivered"}
          [] s = "delivered" -> {}
          [] s = "canceled" -> {}]

\* ALLOWED_CHAIN with a canceled order allowed back to pending
ALLOWED_CHAIN_reopen ==
    [s \in OrderStatus |->
        CASE s = "pending" -> {"assigned", "canceled"}
          [] s = "assigned" -> {"picked_up", "canceled"}
          [] s = "picked_up" -> {"delivered"}
          [] s = "delivered" -> {}
          [] s = "canceled" -> {"pending"}]

\* ALLOWED_CHAIN with a pending order allowed straight to picked_up
ALLOWED_CHAIN_skip ==
    [s \in OrderStatus |->
        CASE s = "pending" -> {"assigned", "canceled", "picked_up"}
          [] s = "assigned" -> {"picked_up", "canceled"}
          [] s = "picked_up" -> {"delivered"}
          [] s = "delivered" -> {}
          [] s = "canceled" -> {}]

ALLOWED_CHAIN ==
    [s \in OrderStatus |->
        CASE s = "pending" -> {"assigned", "canceled"}
          [] s = "assigned" -> {"picked_up", "canceled"}
          [] s = "picked_up" -> {"delivered"}
          [] s = "delivered" -> {}
          [] s = "canceled" -> {}]

\* ALLOWED_CHAIN.get(current, set())
AllowedNext(current) ==
    IF current \in DOMAIN ALLOWED_CHAIN THEN ALLOWED_CHAIN[current] ELSE {}

\* can_transition with a request for the current status let through
can_transition_selfloop(current, nxt) == nxt = current \/ nxt \in AllowedNext(current)

can_transition(current, nxt) == nxt \in AllowedNext(current)

\* schemas.StatusUpdate: the body names one of the five statuses
StatusUpdateValid(status) == status \in OrderStatus

\* Authorize with canceled checked against the table like any other status
Authorize_no_bypass(role, user_id, order, new_status) ==
    IF role = "customer"
    THEN IF order.user_id # user_id THEN 403
         ELSE IF new_status # "canceled" THEN 403
         ELSE IF order.status \notin {"pending", "assigned"} THEN 409
         ELSE 0
    ELSE IF role \in {"courier", "admin"}
    THEN IF ~can_transition(order.status, new_status) THEN 409 ELSE 0
    ELSE 403

\* Authorize with the customer's status check ahead of the target check
Authorize_status_first(role, user_id, order, new_status) ==
    IF role = "customer"
    THEN IF order.user_id # user_id THEN 403
         ELSE IF order.status \notin {"pending", "assigned"} THEN 409
         ELSE IF new_status # "canceled" THEN 403
         ELSE 0
    ELSE IF role \in {"courier", "admin"}
    THEN IF new_status # "canceled" /\ ~can_transition(order.status, new_status)
         THEN 409 ELSE 0
    ELSE 403

\* Authorize with the customer's status check left out
Authorize_customer_any(role, user_id, order, new_status) ==
    IF role = "customer"
    THEN IF order.user_id # user_id THEN 403
         ELSE IF new_status # "canceled" THEN 403
         ELSE 0
    ELSE IF role \in {"courier", "admin"}
    THEN IF new_status # "canceled" /\ ~can_transition(order.status, new_status)
         THEN 409 ELSE 0
    ELSE 403

\* Authorize with the merchant among the roles that may move an order
Authorize_merchant_moves(role, user_id, order, new_status) ==
    IF role = "customer"
    THEN IF order.user_id # user_id THEN 403
         ELSE IF new_status # "canceled" THEN 403
         ELSE IF order.status \notin {"pending", "assigned"} THEN 409
         ELSE 0
    ELSE IF role \in {"courier", "admin", "merchant"}
    THEN IF new_status # "canceled" /\ ~can_transition(order.status, new_status)
         THEN 409 ELSE 0
    ELSE 403

\* the role and table checks of update_order_status: 0 when the request may
\* proceed to the write, otherwise the status code of the HTTPException
Authorize(role, user_id, order, new_status) ==
    IF role = "customer"
    THEN IF order.user_id # user_id THEN 403
         ELSE IF new_status # "canceled" THEN 403
         ELSE IF order.status \notin {"pending", "assigned"} THEN 409
         ELSE 0
    ELSE IF role \in {"courier", "admin"}
    THEN IF new_status # "canceled" /\ ~can_transition(order.status, new_status)
         THEN 409 ELSE 0
    ELSE 403

\* SetStatus with the UPDATE's WHERE clause lost: every row gets the status
SetStatus_no_where(table, order_id, new_status) ==
    [i \in DOMAIN table |-> [table[i] EXCEPT !.status = new_status]]

\* order.status = new_status; db.commit(): the UPDATE of one row's status
SetStatus(table, order_id, new_status) ==
    [table EXCEPT ![order_id] = [@ EXCEPT !.status = new_status]]

\* StatusCode with the role looked at before the order is looked up
StatusCode_role_first(table, u, order_id, status) ==
    IF ~StatusUpdateValid(status) THEN 422
    ELSE IF Users[u] \notin {"customer", "courier", "admin"} THEN 403
    ELSE IF order_id \notin DOMAIN table THEN 404
    ELSE LET denied == Authorize(Users[u], u, table[order_id], status)
         IN IF denied # 0 THEN denied ELSE 200

\* The status code update_order_status answers with, read against `table`.
\* FastAPI validates the body against StatusUpdate before the handler runs,
\* so an unknown status is answered 422 ahead of the lookup, and the
\* handler's own OrderStatus(payload.status) (lines 243-246) never fails.
StatusCode(table, u, order_id, status) ==
    IF ~StatusUpdateValid(status) THEN 422
    ELSE IF order_id \notin DOMAIN table THEN 404
    ELSE LET denied == Authorize(Users[u], u, table[order_id], status)
         IN IF denied # 0 THEN denied ELSE 200

\* update_order_status, PATCH /orders/{order_id}/status, run alone
update_order_status(u, order_id, status) ==
    /\ call = Idle
    /\ LET code == StatusCode(orders, u, order_id, status)
           seen == IF order_id \in DOMAIN orders THEN orders[order_id].status ELSE ""
       IN /\ call' = Exchange("update_order_status", u, order_id, status, seen, code)
          /\ orders' = IF code = 200 THEN SetStatus(orders, order_id, status) ELSE orders
    /\ UNCHANGED <<inflight, commits, tracking, quoting>>

\* the handler returns: the response is written and the next request is taken
Respond ==
    /\ call # Idle
    /\ call' = Idle
    /\ UNCHANGED <<orders, inflight, commits, tracking, quoting>>

----------------------------------------------------------------------------
(* tracking.py: the room registry (ConnectionManager)                       *)
(*                                                                          *)
(* ws_track is a coroutine: it runs alone between two awaits, and at every  *)
(* await (accept, send_text, receive_text) any other connection's coroutine *)
(* may run.  Each action below is one such stretch, from the completion of  *)
(* one await to the start of the next.                                      *)

\* the WebSocket objects of a run, numbered in the order their requests arrive
Handles == {1, 2, 3}

\* the order_id query parameter: any string; it keys the room
RoomIds == {"41", "42"}

\* the order ids a request may name: the first request of a run names the
\* first, the later ones that one or the other
RoomChoices(websocket) == IF websocket = 1 THEN {"41"} ELSE RoomIds

\* the role query parameter (line 48) each peer declares: any string
DeclaredRole(websocket) == IF websocket % 2 = 1 THEN "client" ELSE "courier"

\* self.rooms = {} (line 17)
EmptyRooms == [order_id \in {} |-> {}]

\* the room lookup with the order id ignored: the members of every room
Room_any(rs, order_id) == UNION {rs[o] : o \in DOMAIN rs}

\* self.rooms.get(order_id, []), as a set
Room(rs, order_id) == IF order_id \in DOMAIN rs THEN rs[order_id] ELSE {}

\* line 21 as a toggle: a join by a member takes the member out
connect_toggle(rs, order_id, websocket) ==
    [o \in DOMAIN rs \cup {order_id} |->
        IF o = order_id
        THEN (Room(rs, o) \cup {websocket}) \ (Room(rs, o) \cap {websocket})
        ELSE rs[o]]

\* self.rooms.setdefault(order_id, set()).add(websocket) (line 21)
connect(rs, order_id, websocket) ==
    [o \in DOMAIN rs \cup {order_id} |->
        IF o = order_id THEN Room(rs, o) \cup {websocket} ELSE rs[o]]

\* disconnect without lines 28-29: the emptied room stays in the registry
disconnect_keep_room(rs, order_id, websocket) ==
    IF Room(rs, order_id) = {}
    THEN rs
    ELSE [rs EXCEPT ![order_id] = @ \ {websocket}]

\* ConnectionManager.disconnect (lines 23-29): `not room` holds of a missing
\* room and of an empty one
disconnect(rs, order_id, websocket) ==
    IF Room(rs, order_id) = {}
    THEN rs
    ELSE IF Room(rs, order_id) \ {websocket} = {}
         THEN [o \in DOMAIN rs \ {order_id} |-> rs[o]]
         ELSE [rs EXCEPT ![order_id] = @ \ {websocket}]

\* the dict sent as JSON.  `ts` is the time the payload was built; the model
\* stamps it with the connection that built it, which tells two payloads of
\* the same type, room and role apart as the time does
Payload(type, order_id, role, message, ts) ==
    [type |-> type, order_id |-> order_id, role |-> role, message |-> message, ts |-> ts]

NoPayload == Payload("", "", "", "", 0)

\* the payloads of lines 62-68, 73-79, 83 and 86-92
Hello(c, websocket) == Payload("hello", c.order_id, c.role, "joined room", websocket)

Echo(c, websocket, msg) == Payload("echo", c.order_id, c.role, msg, websocket)

Broadcast(payload) == [payload EXCEPT !.type = "broadcast"]

Left(c, websocket) == Payload("left", c.order_id, c.role, "peer disconnected", websocket)

\* send_personal as a send to every socket
send_personal_all(box, websocket, payload) ==
    [ws \in DOMAIN box |-> box[ws] (+) SetToBag({payload})]

\* ConnectionManager.send_personal (lines 31-32) on an open transport: the
\* client of `websocket` receives the payload
send_personal(box, websocket, payload) ==
    [box EXCEPT ![websocket] = @ (+) SetToBag({payload})]

\* list(room): the members in the order the set yields them, which is any
Orderings(room) ==
    {members \in [1..Cardinality(room) -> room] :
        \A a, b \in 1..Cardinality(room) : a # b => members[a] # members[b]}

\* a connection before its upgrade request: `at` is the await the coroutine
\* is suspended at, `members` and `i` are broadcast's list and its position
NotConnected ==
    [at |-> "request", order_id |-> "", role |-> "", payload |-> NoPayload,
     members |-> <<>>, i |-> 0]

\* manager.broadcast(order_id, payload) is entered (line 35): the list is
\* copied from the room as it is now; an empty list ends the call at once,
\* and the coroutine goes on to `after`
EnterBroadcast(c, rs, payload, at, after) ==
    {[c EXCEPT !.at = IF members = <<>> THEN after ELSE at,
               !.payload = payload, !.members = members, !.i = 1] :
        members \in Orderings(Room(rs, c.order_id))}

\* broadcast without lines 38-40: a socket whose send raised stays in the room
drop_dead_never(rs, order_id, websocket, raised) == rs

\* the except clause of broadcast (lines 38-40): a send that raised drops the
\* socket from the room, a send that returned leaves the room alone
drop_dead(rs, order_id, websocket, raised) ==
    IF raised THEN disconnect(rs, order_id, websocket) ELSE rs

\* ws_track up to its first send: the upgrade request arrives with its query
\* parameters, accept() completes and the socket joins its room (lines 59, 19-21)
ws_track(websocket, order_id, role) ==
    /\ conn[websocket].at = "request"
    /\ \A w \in Handles : w < websocket => conn[w].at # "request"
    /\ transport' = [transport EXCEPT ![websocket] = "open"]
    /\ rooms' = connect(rooms, order_id, websocket)
    /\ conn' = [conn EXCEPT ![websocket] =
                   [@ EXCEPT !.at = "hello", !.order_id = order_id, !.role = role]]
    /\ UNCHANGED <<inbox, texts, did, ordering, quoting>>

\* the exception handler of ws_track (lines 84-92): leave the room, then
\* broadcast "left" to the room as it is after that
on_disconnect(websocket) ==
    /\ rooms' = disconnect(rooms, conn[websocket].order_id, websocket)
    /\ \E c \in EnterBroadcast(conn[websocket], rooms', Left(conn[websocket], websocket),
                               "left", "returned") :
          conn' = [conn EXCEPT ![websocket] = c]

\* the greeting (lines 62-68) completes.  It is sent outside the try block:
\* on a closed transport send_text raises and the exception leaves ws_track
hello(websocket) ==
    /\ conn[websocket].at = "hello"
    /\ transport[websocket] # "stalled"
    /\ IF transport[websocket] = "open"
       THEN /\ inbox' = send_personal(inbox, websocket, Hello(conn[websocket], websocket))
            /\ conn' = [conn EXCEPT ![websocket].at = "receive"]
       ELSE /\ inbox' = inbox
            /\ conn' = [conn EXCEPT ![websocket].at = "raised"]
    /\ UNCHANGED <<rooms, transport, texts, did, ordering, quoting>>

\* receive_text() returns a text frame and the payload is built (lines 72-79)
receive_text(websocket) ==
    /\ conn[websocket].at = "receive"
    /\ transport[websocket] = "open"
    /\ texts < MaxTexts
    /\ texts' = texts + 1
    /\ conn' = [conn EXCEPT ![websocket] =
                   [@ EXCEPT !.at = "echo",
                             !.payload = Echo(conn[websocket], websocket,
                                              ToString(texts + 1))]]
    /\ UNCHANGED <<rooms, transport, inbox, did, ordering, quoting>>

\* receive_text() raises WebSocketDisconnect: the peer is gone (lines 72, 84-86)
receive_disconnect(websocket) ==
    /\ conn[websocket].at = "receive"
    /\ transport[websocket] = "closed"
    /\ on_disconnect(websocket)
    /\ UNCHANGED <<transport, inbox, texts, did, ordering, quoting>>

\* the echo (line 81) completes and broadcast is entered (line 83), or the
\* echo raises WebSocketDisconnect on a closed transport (lines 84-86)
echo(websocket) ==
    /\ conn[websocket].at = "echo"
    /\ transport[websocket] # "stalled"
    /\ IF transport[websocket] = "open"
       THEN /\ inbox' = send_personal(inbox, websocket, conn[websocket].payload)
            /\ rooms' = rooms
            /\ \E c \in EnterBroadcast(conn[websocket], rooms,
                                       Broadcast(conn[websocket].payload),
                                       "broadcast", "receive") :
                  conn' = [conn EXCEPT ![websocket] = c]
       ELSE /\ inbox' = inbox
            /\ on_disconnect(websocket)
    /\ UNCHANGED <<transport, texts, did, ordering, quoting>>

\* one turn of broadcast's loop (lines 35-40): the send to the next socket of
\* the list completes, by returning or by raising; after the last one the
\* coroutine is back at receive_text (line 72) or, for "left", returns
broadcast(websocket) ==
    /\ conn[websocket].at \in {"broadcast", "left"}
    /\ LET c == conn[websocket]
           ws == c.members[c.i]
       IN /\ transport[ws] # "stalled"
          /\ inbox' = IF transport[ws] = "open"
                      THEN send_personal(inbox, ws, c.payload) ELSE inbox
          /\ rooms' = drop_dead(rooms, c.order_id, ws, transport[ws] # "open")
          /\ conn' = [conn EXCEPT ![websocket] =
                         [@ EXCEPT !.i = c.i + 1,
                                   !.at = IF c.i < Len(c.members) THEN c.at
                                          ELSE IF c.at = "left" THEN "returned"
                                          ELSE "receive"]]
    /\ UNCHANGED <<transport, texts, did, ordering, quoting>>

\* the peer goes away: from now on receive_text and send_text raise
close(websocket) ==
    /\ transport[websocket] \in {"open", "stalled"}
    /\ Cardinality({ws \in Handles : transport[ws] = "closed"}) < MaxCloses
    /\ transport' = [transport EXCEPT ![websocket] = "closed"]
    /\ UNCHANGED <<rooms, conn, inbox, texts, did, ordering, quoting>>

\* the peer stops reading and its buffers fill: from now on a send_text to it
\* neither returns nor raises
stall(websocket) ==
    /\ transport[websocket] = "open"
    /\ transport' = [transport EXCEPT ![websocket] = "stalled"]
    /\ UNCHANGED <<rooms, conn, inbox, texts, did, ordering, quoting>>

\* the manager called directly, one call at a time: what the call was, the
\* sockets whose send_text raised in it, and the members of its room before it
ManagerCall(op, order_id, websocket, dead, before) ==
    [op |-> op, order_id |-> order_id, websocket |-> websocket, dead |-> dead,
     before |-> before]

NoCall == ManagerCall("", "", 0, {}, {})

\* await manager.connect(order_id, websocket) (lines 19-21).  accept() on a
\* socket that is already accepted is refused by the framework or not,
\* according to its version: when it is refused, line 21 is not reached
manager_connect(order_id, websocket, accepted) ==
    /\ accepted \/ \E o \in DOMAIN rooms : websocket \in rooms[o]
    /\ rooms' = IF accepted THEN connect(rooms, order_id, websocket) ELSE rooms
    /\ did' = ManagerCall("connect", order_id, websocket, {}, Room(rooms, order_id))
    /\ UNCHANGED <<conn, transport, inbox, texts, ordering, quoting>>

\* manager.disconnect(order_id, websocket) (lines 23-29)
manager_disconnect(order_id, websocket) ==
    /\ rooms' = disconnect(rooms, order_id, websocket)
    /\ did' = ManagerCall("disconnect", order_id, websocket, {}, Room(rooms, order_id))
    /\ UNCHANGED <<conn, transport, inbox, texts, ordering, quoting>>

\* the room after broadcast has dropped the sockets of `dead` one by one
RECURSIVE drop_all(_, _, _)
drop_all(rs, order_id, dead) ==
    IF dead = {} THEN rs
    ELSE LET ws == CHOOSE w \in dead : TRUE
         IN drop_all(drop_dead(rs, order_id, ws, TRUE), order_id, dead \ {ws})

\* await manager.broadcast(order_id, payload) (lines 34-40) with no other
\* coroutine running: every member is sent to, and those whose send_text
\* raises, the sockets of `dead`, are dropped
manager_broadcast(order_id, dead) ==
    /\ texts < MaxTexts
    /\ texts' = texts + 1
    /\ LET room == Room(rooms, order_id)
           payload == Payload("broadcast", order_id, "", ToString(texts + 1), 0)
       IN /\ inbox' = [ws \in Handles |->
                          IF ws \in room \ dead THEN inbox[ws] (+) SetToBag({payload})
                          ELSE inbox[ws]]
          /\ rooms' = drop_all(rooms, order_id, room \cap dead)
          /\ did' = ManagerCall("broadcast", order_id, 0, dead, room)
    /\ UNCHANGED <<conn, transport, ordering, quoting>>

\* no connection yet: the state of tracking.py after import
NoTracking ==
    /\ rooms = EmptyRooms
    /\ conn = [websocket \in Handles |-> NotConnected]
    /\ transport = [websocket \in Handles |-> "none"]
    /\ inbox = [websocket \in Handles |-> EmptyBag]
    /\ texts = 0
    /\ did = NoCall

----------------------------------------------------------------------------
(* quote_engine.py                                                          *)
(*                                                                          *)
(* Numbers.  Latitudes and longitudes are ten-thousandths of a degree, a    *)
(* distance in kilometres is carried in metres, miles are hundredths of a   *)
(* mile, pounds are thousandths of a pound, inches are whole, the factors   *)
(* of the tables are thousandths (the vehicle's mult hundredths, its env    *)
(* cents), the size factor is ten-thousandths, and money is hundred-        *)
(* thousandths of a dollar until round(subtotal, 2) makes it cents.  Every  *)
(* product is cut at the unit it is carried in, where the code's doubles    *)
(* keep about sixteen digits: on requests whose size factor is 0.75, 1 or 2 *)
(* the price is the code's to the cent but for a cent at a half cent, on    *)
(* the others it is the code's to a few cents, and the ETA is the code's    *)
(* but where the minutes are whole, which the double may place above.       *)

\* VEHICLE (lines 6-21)
VEHICLE ==
    [bike        |-> [speed |-> 12, mult |-> 90,  env |-> -35],
     cargo_bike  |-> [speed |-> 11, mult |-> 100, env |-> -30],
     e_bike      |-> [speed |-> 14, mult |-> 95,  env |-> -30],
     scooter     |-> [speed |-> 18, mult |-> 95,  env |-> 0],
     motorcycle  |-> [speed |-> 28, mult |-> 105, env |-> 0],
     car         |-> [speed |-> 24, mult |-> 100, env |-> 0],
     ev_compact  |-> [speed |-> 24, mult |-> 98,  env |-> -10],
     ev_sedan    |-> [speed |-> 24, mult |-> 102, env |-> -10],
     suv         |-> [speed |-> 22, mult |-> 115, env |-> 0],
     ev_suv      |-> [speed |-> 22, mult |-> 112, env |-> -8],
     van         |-> [speed |-> 21, mult |-> 122, env |-> 0],
     ev_van      |-> [speed |-> 21, mult |-> 120, env |-> -6],
     truck_light |-> [speed |-> 20, mult |-> 135, env |-> 0],
     truck_box   |-> [speed |-> 19, mult |-> 150, env |-> 0]]

\* ITEM_MULT, WEATHER, TRAFFIC (lines 23-25), in thousandths
ITEM_MULT ==
    [general |-> 1000, electronics |-> 1200, fragile |-> 1250, perishable |-> 1150,
     oversize |-> 1400]

WEATHER == [clear |-> 1000, rain |-> 1080, snow |-> 1180, extreme |-> 1350]

TRAFFIC == [low |-> 1000, med |-> 1150, high |-> 1350]

\* SURGE = 1.075 (line 26), in thousandths
SURGE == 1075

\* dict.get with the default ignored: a missing key gets some entry of the table
Get_some(table, key, default) ==
    IF key \in DOMAIN table THEN table[key] ELSE table[CHOOSE k \in DOMAIN table : TRUE]

\* dict.get(key, default)
Get(table, key, default) == IF key \in DOMAIN table THEN table[key] ELSE default

Abs(n) == IF n < 0 THEN -n ELSE n

\* x * f / one, cut at a unit of x, computed so that no product leaves 32 bits
Times(x, f, one) == (x \div one) * f + ((x % one) * f) \div one

\* _clamp with its bounds ignored
clamp_off(n, a, b) == n

\* _clamp (line 28)
clamp(n, a, b) == Max(a, Min(b, n))

\* _haversine_km (lines 30-34), in metres, for two points on one meridian or
\* two points on the equator: there a is sin(d/2)**2 for the difference d of
\* the latitudes, or of the longitudes the short way round, atan2 gives back
\* d/2, and the result is R * d * pi/180: 111194.93 metres for each whole
\* degree of d and 11.11949 metres for each ten-thousandth left, summed in
\* centimetres
haversine_km(lat1, lon1, lat2, lon2) ==
    LET d == IF lon1 = lon2
             THEN Abs(lat2 - lat1)
             ELSE Min(Abs(lon2 - lon1), 3600000 - Abs(lon2 - lon1))
        whole == d \div 10000
        part == d % 10000
    IN (whole * 11119493 + part * 1111 + (part * 949) \div 1000) \div 100

\* y ** 5, in ten-thousandths
Fifth(y) ==
    LET y2 == (y * y) \div 10000
        y3 == (y2 * y) \div 10000
        y4 == (y3 * y) \div 10000
    IN (y4 * y) \div 10000

\* the fifth root by bisection, in ten-thousandths
RECURSIVE Root5In(_, _, _)
Root5In(x, lo, hi) ==
    IF hi - lo <= 1 THEN lo
    ELSE LET mid == (lo + hi) \div 2
         IN IF Fifth(mid) <= x THEN Root5In(x, mid, hi) ELSE Root5In(x, lo, mid)

\* the square root, in ten-thousandths
Sqrt4(x) == ISqrt(x * 10000)

\* x ** 0.35 as x ** (1/4) * x ** (1/10), in ten-thousandths, for x up to 8
Pow035(x) == Times(Sqrt4(Sqrt4(x)), Sqrt4(Root5In(x, 0, 16000)), 10000)

\* _size_factor (lines 36-39), in ten-thousandths.  From 8 times the base
\* volume on the power is above 2.0 and the clamp returns 2.0: the power is
\* taken of at most 8
size_factor(L, W, H) ==
    LET base == 12 * 8 * 6
        vol == Max(1, L * W * H)
    IN clamp(Pow035((Min(vol, 8 * base) * 10000) \div base), 7500, 20000)

\* _weight_fee (line 41), in hundred-thousandths of a dollar
weight_fee(lb) == Max(0, (Max(0, lb) - 5000) * 15)

\* the tier with the thresholds closed above: 12.00 is still Saver
tier_closed(price) ==
    IF price <= 1200 THEN "Saver"
    ELSE IF price <= 3000 THEN "Standard"
    ELSE IF price <= 8000 THEN "Priority"
    ELSE "Pro Load"

\* line 65, of a price in cents
tier(price) ==
    IF price < 1200 THEN "Saver"
    ELSE IF price < 3000 THEN "Standard"
    ELSE IF price < 8000 THEN "Priority"
    ELSE "Pro Load"

\* lines 47-48: miles = round(km * 0.621371 * 1.15, 2), 0.0714577 hundredths
\* of a mile for each metre
quote_miles(pickup, dropoff) ==
    LET m == haversine_km(pickup[1], pickup[2], dropoff[1], dropoff[2])
    IN ((m \div 1000) * 714577 + ((m % 1000) * 714577) \div 1000 + 5000) \div 10000

\* the subtotal with the miles left out of the base fare
quote_subtotal_flat(miles, vehicle, item_type, weight_lb, length_in, width_in, height_in, weather, traffic) ==
    LET v == Get(VEHICLE, vehicle, VEHICLE["car"])
        base == 350000 + 145 * v.mult * 10
        sizeF == size_factor(length_in, width_in, height_in)
        itemM == Get(ITEM_MULT, item_type, 1000)
        wtFee == weight_fee(weight_lb)
        env == v.env * 1000
        access == 125000
    IN Times(Times(Times(Times(Times(base, sizeF, 10000), itemM, 1000),
                         Get(WEATHER, weather, 1000), 1000),
                   Get(TRAFFIC, traffic, 1150), 1000), SURGE, 1000)
       + wtFee + access + env

\* lines 50-59: subtotal, in hundred-thousandths of a dollar
quote_subtotal(miles, vehicle, item_type, weight_lb, length_in, width_in, height_in, weather, traffic) ==
    LET v == Get(VEHICLE, vehicle, VEHICLE["car"])
        base == 350000 + (miles * 145 * v.mult) \div 10
        sizeF == size_factor(length_in, width_in, height_in)
        itemM == Get(ITEM_MULT, item_type, 1000)
        wtFee == weight_fee(weight_lb)
        env == v.env * 1000
        access == 125000
    IN Times(Times(Times(Times(Times(base, sizeF, 10000), itemM, 1000),
                         Get(WEATHER, weather, 1000), 1000),
                   Get(TRAFFIC, traffic, 1150), 1000), SURGE, 1000)
       + wtFee + access + env

\* lines 62-63: eta.  wx is in ten-thousandths; eff = speed / wx * 0.9 is at
\* least 3 when speed * 9000 >= 3 * wx, and then the minutes are
\* miles * wx / (15000 * speed) + 5, else miles / 5 + 5; ceil rounds them up
quote_eta(miles, vehicle, weather, traffic) ==
    LET v == Get(VEHICLE, vehicle, VEHICLE["car"])
        wx == (Get(WEATHER, weather, 1000) * Get(TRAFFIC, traffic, 1150)) \div 100
        n == IF v.speed * 9000 >= 3 * wx THEN miles * wx ELSE miles
        d == IF v.speed * 9000 >= 3 * wx THEN 15000 * v.speed ELSE 5
    IN Max(5, (n + d - 1) \div d + 5)

\* estimate_quote (lines 43-66): price in cents, miles in hundredths
estimate_quote(pickup, dropoff, vehicle, item_type, quantity, weight_lb, length_in, width_in, height_in, weather, traffic) ==
    LET miles == quote_miles(pickup, dropoff)
        subtotal == quote_subtotal(miles, vehicle, item_type, weight_lb, length_in,
                                   width_in, height_in, weather, traffic)
        price == clamp((subtotal + 500) \div 1000, 450, 99900)
    IN [price |-> price, eta |-> quote_eta(miles, vehicle, weather, traffic),
        miles |-> miles, tier |-> tier(price)]

\* the calls made: a trip along a meridian or along the equator, every key of
\* each table and one that is not a key, and a load, which is a weight and
\* the three sides of the parcel
Trips ==
    {<<<<400000, -740000>>, <<400000 + d, -740000>>>> : d \in {0, 500, 6000, 100000}}
        \cup {<<<<0, 0>>, <<0, 2500>>>>}

Vehicles == DOMAIN VEHICLE \cup {"hovercraft"}

ItemTypes == DOMAIN ITEM_MULT \cup {"livestock"}

Weathers == DOMAIN WEATHER \cup {"fog"}

Traffics == DOMAIN TRAFFIC \cup {"jam"}

Loads ==
    {<<0, <<1, 1, 1>>>>, <<0, <<12, 8, 6>>>>, <<47820, <<12, 8, 6>>>>,
     <<171583, <<12, 8, 6>>>>, <<504917, <<12, 8, 6>>>>, <<20000, <<24, 8, 6>>>>,
     <<5000, <<40, 40, 40>>>>}

QuoteRequest(trip, vehicle, item_type, load, weather, traffic) ==
    [pickup |-> trip[1], dropoff |-> trip[2], vehicle |-> vehicle,
     item_type |-> item_type, quantity |-> 1, weight_lb |-> load[1],
     length_in |-> load[2][1], width_in |-> load[2][2], height_in |-> load[2][3],
     weather |-> weather, traffic |-> traffic]

\* no call in progress
NoEstimate ==
    [req |-> QuoteRequest(<<<<0, 0>>, <<0, 0>>>>, "", "", <<0, <<0, 0, 0>>>>, "", ""),
     res |-> [price |-> 0, eta |-> 0, miles |-> 0, tier |-> ""]]

NoQuoting ==
    /\ estimate = NoEstimate
    /\ earlier = NoEstimate
    /\ located = NoLocation
    /\ quoted = NoQuote

\* a caller calls estimate_quote on a request and holds what it returned
quote_call ==
    /\ estimate = NoEstimate
    /\ \E trip \in Trips, vehicle \in Vehicles, item_type \in ItemTypes,
          load \in Loads, weather \in Weathers, traffic \in Traffics :
          LET req == QuoteRequest(trip, vehicle, item_type, load, weather, traffic)
          IN estimate' =
                [req |-> req,
                 res |-> estimate_quote(req.pickup, req.dropoff, req.vehicle,
                                        req.item_type, req.quantity, req.weight_lb,
                                        req.length_in, req.width_in, req.height_in,
                                        req.weather, req.traffic)]
    /\ UNCHANGED <<ordering, tracking, earlier, located, quoted>>

\* the caller is done with the result
quote_done ==
    /\ estimate # NoEstimate
    /\ estimate' = NoEstimate
    /\ UNCHANGED <<ordering, tracking, earlier, located, quoted>>

\* the calls of a caller that quotes a trip and then a longer one: from one
\* point north along a meridian, nowhere, 11 and 22 metres, 5.6 and 67
\* kilometres, ten degrees, and ten degrees and a hundredth
Legs ==
    {<<<<400000, -740000>>, <<400000 + d, -740000>>>> :
        d \in {0, 1, 2, 500, 6000, 100000, 100100}}

\* the smallest parcel and the base parcel, nothing to weigh
LegLoads == {<<0, <<1, 1, 1>>>>, <<0, <<12, 8, 6>>>>}

LegItems == {"general", "oversize"}

\* the caller calls estimate_quote on a trip
quote_leg ==
    /\ estimate = NoEstimate
    /\ \E trip \in Legs, vehicle \in Vehicles, item_type \in LegItems,
          load \in LegLoads, weather \in Weathers, traffic \in Traffics :
          LET req == QuoteRequest(trip, vehicle, item_type, load, weather, traffic)
          IN estimate' =
                [req |-> req,
                 res |-> estimate_quote(req.pickup, req.dropoff, req.vehicle,
                                        req.item_type, req.quantity, req.weight_lb,
                                        req.length_in, req.width_in, req.height_in,
                                        req.weather, req.traffic)]
    /\ UNCHANGED <<ordering, tracking, earlier, located, quoted>>

\* the caller calls estimate_quote again with a trip of more miles and every
\* other argument as before, and keeps what the call before returned
quote_longer ==
    /\ estimate # NoEstimate
    /\ earlier = NoEstimate
    /\ \E trip \in Legs :
          LET req == [estimate.req EXCEPT !.pickup = trip[1], !.dropoff = trip[2]]
              res == estimate_quote(req.pickup, req.dropoff, req.vehicle,
                                    req.item_type, req.quantity, req.weight_lb,
                                    req.length_in, req.width_in, req.height_in,
                                    req.weather, req.traffic)
          IN /\ res.miles > estimate.res.miles
             /\ estimate' = [req |-> req, res |-> res]
    /\ earlier' = estimate
    /\ UNCHANGED <<ordering, tracking, located, quoted>>

\* the caller is done with both results
quote_forget ==
    /\ estimate # NoEstimate
    /\ estimate' = NoEstimate
    /\ earlier' = NoEstimate
    /\ UNCHANGED <<ordering, tracking, located, quoted>>

----------------------------------------------------------------------------
(* Every request handled alone, one after another *)

NoCommit == [order_id |-> 0, user |-> 0, seen |-> "", overwritten |-> "", status |-> ""]

Init ==
    /\ orders = <<>>
    /\ call = Idle
    /\ inflight = {}
    /\ commits = NoCommit
    /\ NoTracking
    /\ NoQuoting

Next ==
    \/ \E u \in UserIds, payload \in OrderCreateBodies : create_order(u, payload)
    \/ \E u \in UserIds, payload \in CompatBodies : create_order_compat(u, payload)
    \/ \E u \in UserIds, order_id \in OrderIds, status \in StatusBodies :
          update_order_status(u, order_id, status)
    \/ Respond

Spec == Init /\ [][Next]_vars

----------------------------------------------------------------------------
(* Requests handled concurrently.  update_order_status is a sync route, so  *)
(* FastAPI runs each request on its own worker thread with its own Session. *)
(* The handler reads the row (line 239) with no lock and no FOR UPDATE,     *)
(* decides on the copy it loaded, and db.commit() (line 262) issues         *)
(* UPDATE orders SET status = ? WHERE id = ?: the write is not conditioned  *)
(* on the status that was read.                                             *)

Slots == 1..MaxInflight

Free == [user |-> 0, order_id |-> 0, status |-> "", seen |-> ""]

\* update_order_status up to its last check, against the table as it is now:
\* a request that passes holds its loaded row and is about to write
patch_read(slot, u, order_id, status) ==
    /\ call = Idle
    /\ inflight[slot] = Free
    /\ IF StatusCode(orders, u, order_id, status) = 200
       THEN inflight' = [inflight EXCEPT ![slot] =
                            [user |-> u, order_id |-> order_id, status |-> status,
                             seen |-> orders[order_id].status]]
       ELSE inflight' = inflight
    /\ UNCHANGED <<orders, call, commits, tracking, quoting>>

\* order.status = new_status; db.commit(); db.refresh(order).  The unit of
\* work writes the column only when the value set differs from the one loaded.
patch_commit(slot) ==
    /\ inflight[slot] # Free
    /\ LET r == inflight[slot]
       IN IF r.status # r.seen
          THEN /\ orders' = SetStatus(orders, r.order_id, r.status)
               /\ commits' = [order_id |-> r.order_id, user |-> r.user, seen |-> r.seen,
                              overwritten |-> orders[r.order_id].status,
                              status |-> r.status]
          ELSE UNCHANGED <<orders, commits>>
    /\ inflight' = [inflight EXCEPT ![slot] = Free]
    /\ UNCHANGED <<call, tracking, quoting>>

InitConc ==
    /\ orders = <<>>
    /\ call = Idle
    /\ inflight = [slot \in Slots |-> Free]
    /\ commits = NoCommit
    /\ NoTracking
    /\ NoQuoting

NextConc ==
    \/ \E u \in UserIds, payload \in OrderCreateBodies :
          Len(orders) < MaxOrdersConc /\ create_order(u, payload)
    \/ \E u \in UserIds, payload \in CompatBodies :
          Len(orders) < MaxOrdersConc /\ create_order_compat(u, payload)
    \/ Respond
    \/ \E slot \in Slots, u \in UserIds, order_id \in OrderIds, status \in StatusBodies :
          patch_read(slot, u, order_id, status)
    \/ \E slot \in Slots : patch_commit(slot)

SpecConc == InitConc /\ [][NextConc]_vars

----------------------------------------------------------------------------
(* The tracking rooms: connections served concurrently by one event loop *)

\* the order routes idle
NoOrdering ==
    /\ orders = <<>>
    /\ call = Idle
    /\ inflight = {}
    /\ commits = NoCommit

InitTrack ==
    /\ NoOrdering
    /\ NoTracking
    /\ NoQuoting

NextTrack ==
    \/ \E websocket \in Handles : \E order_id \in RoomChoices(websocket) :
          ws_track(websocket, order_id, DeclaredRole(websocket))
    \/ \E websocket \in Handles : hello(websocket)
    \/ \E websocket \in Handles : receive_text(websocket)
    \/ \E websocket \in Handles : receive_disconnect(websocket)
    \/ \E websocket \in Handles : echo(websocket)
    \/ \E websocket \in Handles : broadcast(websocket)
    \/ \E websocket \in Handles : close(websocket)

SpecTrack == InitTrack /\ [][NextTrack]_vars

\* The same with peers that stop reading.  The event loop runs every
\* coroutine whose await has completed, so a step of a coroutine that stays
\* possible is taken; what the peers do (connect, send a frame, close, stall)
\* is not owed.
Resume(websocket) ==
    \/ hello(websocket)
    \/ receive_disconnect(websocket)
    \/ echo(websocket)
    \/ broadcast(websocket)

NextTrackLive ==
    \/ \E websocket \in Handles : \E order_id \in RoomChoices(websocket) :
          ws_track(websocket, order_id, DeclaredRole(websocket))
    \/ \E websocket \in Handles : hello(websocket)
    \/ \E websocket \in Handles : receive_text(websocket)
    \/ \E websocket \in Handles : echo(websocket)
    \/ \E websocket \in Handles : broadcast(websocket)
    \/ \E websocket \in Handles : stall(websocket)

SpecTrackLive ==
    /\ InitTrack
    /\ [][NextTrackLive]_vars
    /\ \A websocket \in Handles : WF_vars(Resume(websocket))

\* The manager called directly, one call after another
NextRegistry ==
    \/ \E order_id \in RoomIds, websocket \in Handles, accepted \in BOOLEAN :
          manager_connect(order_id, websocket, accepted)
    \/ \E order_id \in RoomIds, websocket \in Handles :
          manager_disconnect(order_id, websocket)
    \/ \E order_id \in RoomIds, dead \in SUBSET Handles : manager_broadcast(order_id, dead)

SpecRegistry == InitTrack /\ [][NextRegistry]_vars

----------------------------------------------------------------------------
(* estimate_quote called on one request after another *)

InitQuote ==
    /\ NoOrdering
    /\ NoTracking
    /\ NoQuoting

NextQuote ==
    \/ quote_call
    \/ quote_done

SpecQuote == InitQuote /\ [][NextQuote]_vars

----------------------------------------------------------------------------
(* The routes that quote: POST /quote, POST /quote/estimate and POST /orders *)

NextRoutes ==
    \/ \E payload \in QuoteBodies : quote_price(payload)
    \/ \E payload \in CompatBodies : quote_estimate(payload)
    \/ quote_answered
    \/ \E u \in UserIds, payload \in QuoteBodies : create_order(u, payload)
    \/ \E u \in UserIds, payload \in CompatBodies : create_order_compat(u, payload)
    \/ Respond

SpecRoutes == Init /\ [][NextRoutes]_vars

----------------------------------------------------------------------------
(* fake_geocode called on one address after another *)

NextGeocode ==
    \/ geocode_call
    \/ geocode_done

SpecGeocode == InitQuote /\ [][NextGeocode]_vars

----------------------------------------------------------------------------
(* estimate_quote called on a trip and then on a longer one *)

NextRequote ==
    \/ quote_leg
    \/ quote_longer
    \/ quote_forget

SpecRequote == InitQuote /\ [][NextRequote]_vars

----------------------------------------------------------------------------
(* Properties of the status state machine *)

IsUpdate == call.op = "update_order_status"

\* the handler found the order it was asked about
Found == call.seen # ""

Terminal == {"delivered", "canceled"}

\* the transition table as section 4.3 of the specification prints it
TableOfSpec ==
    { <<"pending", "assigned">>, <<"pending", "canceled">>,
      <<"assigned", "picked_up">>, <<"assigned", "canceled">>,
      <<"picked_up", "delivered">> }

\* C1: terminal states are final.  After an update_status on an order that
\* was delivered or canceled, whoever asked and whatever was asked for, the
\* order still has the status it had.
C1_TerminalFinal ==
    (IsUpdate /\ Found /\ call.seen \in Terminal)
        => orders[call.order_id].status = call.seen

\* C2: for a courier or an admin asking for a status other than canceled on
\* an existing order, the request succeeds (and sets the status) exactly when
\* (current, requested) is in the table, and is a Conflict (409) otherwise; a
\* request for the current status is a Conflict.
C2_TableDecides ==
    (IsUpdate /\ Found /\ Users[call.user] \in {"courier", "admin"}
       /\ call.status \in OrderStatus \ {"canceled"})
        => /\ call.code \in {200, 409}
           /\ call.code = 200 <=> <<call.seen, call.status>> \in TableOfSpec
           /\ call.code = 200 => orders[call.order_id].status = call.status
           /\ call.code = 409 => orders[call.order_id].status = call.seen
           /\ call.status = call.seen => call.code = 409

\* a courier asked for the status the order already had and got a Conflict
C2_Witness ==
    /\ IsUpdate /\ Found /\ Users[call.user] = "courier"
    /\ call.status = "picked_up" /\ call.seen = "picked_up"
    /\ call.code = 409

\* C3: a courier's or an admin's request for canceled succeeds from every
\* current status and leaves the order canceled; it fails only with NotFound
\* (404), when the order does not exist.
C3_CancelAlways ==
    (IsUpdate /\ Users[call.user] \in {"courier", "admin"} /\ call.status = "canceled")
        => IF call.order_id \in DOMAIN orders
           THEN call.code = 200 /\ orders[call.order_id].status = "canceled"
           ELSE call.code = 404

\* an admin canceled an order that was picked up, which the table does not list
C3_Witness ==
    /\ IsUpdate /\ Users[call.user] = "admin"
    /\ call.status = "canceled" /\ call.seen = "picked_up"
    /\ call.code = 200
    /\ orders[call.order_id].status = "canceled"

\* C4: a customer's request on an existing order is Forbidden (403) whenever
\* the order is not the customer's own or the requested status is not
\* canceled, whatever the order's current status is; the status is unchanged.
C4_CustomerForbidden ==
    (IsUpdate /\ Found /\ Users[call.user] = "customer" /\ call.status \in OrderStatus
       /\ (orders[call.order_id].user_id # call.user \/ call.status # "canceled"))
        => call.code = 403 /\ orders[call.order_id].status = call.seen

\* a customer asked for assigned on an own delivered order: Forbidden, not Conflict
C4_Witness ==
    /\ IsUpdate /\ Found /\ Users[call.user] = "customer"
    /\ orders[call.order_id].user_id = call.user
    /\ call.seen = "delivered" /\ call.status = "assigned"
    /\ call.code = 403

\* C5: a customer's request for canceled on an own order succeeds (the status
\* becomes canceled) exactly when the current status is pending or assigned;
\* from picked_up, delivered or canceled it is a Conflict (409) and the status
\* is unchanged.
C5_CustomerCancel ==
    (IsUpdate /\ Found /\ Users[call.user] = "customer" /\ call.status = "canceled"
       /\ orders[call.order_id].user_id = call.user)
        => IF call.seen \in {"pending", "assigned"}
           THEN call.code = 200 /\ orders[call.order_id].status = "canceled"
           ELSE call.code = 409 /\ orders[call.order_id].status = call.seen

\* a customer asked to cancel an own order that was already picked up
C5_Witness ==
    /\ IsUpdate /\ Found /\ Users[call.user] = "customer"
    /\ orders[call.order_id].user_id = call.user
    /\ call.status = "canceled" /\ call.seen = "picked_up"
    /\ call.code = 409
    /\ orders[call.order_id].status = "picked_up"

\* role words that are none of customer, courier, admin
OtherRoles == (UserRole \cup {"client", "dispatcher", ""}) \ {"customer", "courier", "admin"}

\* C6: a merchant, or any role other than customer, courier and admin, has
\* no transition rights: each of its requests on an existing order is
\* Forbidden (403), for every current and every requested status, and the
\* status is unchanged.  The second conjunct puts every other role word in
\* the place of the caller of each request on an existing order.
C6_NoRights ==
    /\ (IsUpdate /\ Found /\ Users[call.user] \notin {"customer", "courier", "admin"}
          /\ call.status \in OrderStatus)
         => call.code = 403 /\ orders[call.order_id].status = call.seen
    /\ (IsUpdate /\ Found /\ call.status \in OrderStatus)
         => \A role \in OtherRoles :
               Authorize(role, call.user,
                         [orders[call.order_id] EXCEPT !.status = call.seen],
                         call.status) = 403

\* a merchant asked to cancel an own pending order
C6_Witness ==
    /\ IsUpdate /\ Found /\ Users[call.user] = "merchant"
    /\ orders[call.order_id].user_id = call.user
    /\ call.status = "canceled" /\ call.seen = "pending"
    /\ call.code = 403

\* a row without its status
Static(row) == [row EXCEPT !.status = ""]

\* the quote request a stored row stands for
RowRequest(row) ==
    [pickup_lat |-> row.pickup_lat, pickup_lng |-> row.pickup_lng,
     dropoff_lat |-> row.dropoff_lat, dropoff_lng |-> row.dropoff_lng,
     vehicle |-> row.vehicle, item_type |-> row.item_type, quantity |-> row.quantity,
     weight_lb |-> row.weight_lb, length_in |-> row.length_in,
     width_in |-> row.width_in, height_in |-> row.height_in]

\* one step keeps every stored order but for its status, and changes the
\* status of no order other than the one a successful update names
FrameStep ==
    /\ Len(orders') >= Len(orders)
    /\ \A i \in DOMAIN orders :
          /\ Static(orders'[i]) = Static(orders[i])
          /\ orders'[i].status # orders[i].status
               => /\ call'.op = "update_order_status"
                  /\ call'.code = 200
                  /\ call'.order_id = i
                  /\ orders'[i].status = call'.status

\* the order a request has just made or changed carries the price and the
\* eta of the quote for it
QuotedAtCreation ==
    (call.code \in {200, 201} /\ call.order_id \in DOMAIN orders)
        => LET row == orders[call.order_id]
               quote == compute_quote(RowRequest(row))
           IN /\ row.id = call.order_id
              /\ row.price = quote.price
              /\ row.eta_min = quote.eta

\* C7: a successful update_status changes only the status of the order it
\* names: every other field of that order and every other order stay as
\* they were, so each order's price and eta_min remain those of its quote.
C7_OnlyStatusChanges == [][FrameStep]_vars /\ []QuotedAtCreation

\* an admin moved order 2 to assigned while order 1, delivered, stayed as it was
C7_Witness ==
    /\ IsUpdate /\ call.code = 200 /\ call.order_id = 2
    /\ call.seen = "pending" /\ orders[2].status = "assigned"
    /\ orders[1].status = "delivered"
    /\ orders[2].price = 1041 /\ orders[2].eta_min = 10

\* C8: update_status on an order id that does not exist is NotFound (404)
\* for every role and every recognized status, and an update_status that
\* fails (404, 403, 409 or 422) leaves the whole orders table as it was.
C8_NotFoundAndNoEffect ==
    [][call'.op = "update_order_status"
         => /\ (call'.order_id \notin DOMAIN orders /\ call'.status \in OrderStatus)
                  => call'.code = 404
            /\ call'.code # 200 => orders' = orders]_vars

\* a merchant asked for delivered on an order id that no order has
C8_Witness ==
    /\ IsUpdate /\ Users[call.user] = "merchant"
    /\ call.order_id \notin DOMAIN orders /\ call.status = "delivered"
    /\ call.code = 404
    /\ Len(orders) = MaxOrders

\* C9: under concurrent requests every committed status change is one the
\* role and table rules allow from the status it overwrites, as it would be
\* in some serial order of the requests.
C9_CommitAllowed ==
    (commits # NoCommit /\ commits.overwritten # commits.status)
        => Authorize(Users[commits.user], commits.user,
                     [user_id |-> orders[commits.order_id].user_id,
                      status |-> commits.overwritten],
                     commits.status) = 0

\* C10: each create route stores the new order as pending and owned by the
\* user who asked, and no step takes an order that has left pending back
\* to pending.
C10_PendingOnlyInitial ==
    [][/\ (call'.op \in {"create_order", "create_order_compat"} /\ call'.code = 201)
            => /\ call'.order_id = Len(orders) + 1
               /\ Len(orders') = Len(orders) + 1
       /\ \A i \in DOMAIN orders' :
             IF i \in DOMAIN orders
             THEN orders[i].status # "pending" => orders'[i].status # "pending"
             ELSE /\ orders'[i].status = "pending"
                  /\ orders'[i].user_id = call'.user
                  /\ call'.op \in {"create_order", "create_order_compat"}]_vars

\* a courier asked to put an assigned order back to pending and got a Conflict
C10_Witness ==
    /\ IsUpdate /\ Users[call.user] = "courier"
    /\ call.status = "pending" /\ call.seen = "assigned"
    /\ call.code = 409
    /\ orders[call.order_id].status = "assigned"

----------------------------------------------------------------------------
(* Properties of the tracking rooms *)

\* C11: no orphan rooms.  Every order id that is a key of the registry has at
\* least one member; a leave, or a broadcast dropping the sockets it could
\* not send to, that takes the last member out of a room takes the room's
\* key out of the registry.
C11_NoOrphanRooms ==
    /\ \A order_id \in DOMAIN rooms : rooms[order_id] # {}
    /\ did.op = "disconnect" /\ did.before \subseteq {did.websocket}
          => did.order_id \notin DOMAIN rooms
    /\ did.op = "broadcast" /\ did.before \subseteq did.dead
          => did.order_id \notin DOMAIN rooms

\* after a broadcast ran, a leave has just taken out the last member of the
\* last room: the registry is empty
C11_Witness ==
    /\ did.op = "disconnect"
    /\ did.before = {did.websocket}
    /\ rooms = EmptyRooms
    /\ texts > 0

\* C12: join is idempotent on membership.  A join by a socket that is already
\* a member of the room leaves the room's members as they were, the socket
\* among them once; after a leave the socket is not a member.
C12_JoinIdempotent ==
    /\ did.op = "connect" /\ did.websocket \in did.before
          => Room(rooms, did.order_id) = did.before
    /\ did.op = "disconnect" => did.websocket \notin Room(rooms, did.order_id)

\* a socket has just joined a room it was already in, with another member
C12_Witness ==
    /\ did.op = "connect"
    /\ did.websocket \in did.before
    /\ Cardinality(did.before) = 2
    /\ rooms[did.order_id] = did.before

\* the sockets a broadcast has sent to so far, by returning or by raising
Tried(c) == {c.members[k] : k \in 1..(c.i - 1)}

\* the connection is in a broadcast, or back from one and not yet building
\* the next payload: `payload` and `members` are that broadcast's
InBroadcast(c) == c.at \in {"broadcast", "left", "receive", "returned"} /\ c.members # <<>>

\* C13: a delivery failure never aborts a broadcast.  Of the sockets a
\* broadcast has come to, each one whose transport is open has received the
\* payload and each one that has not received it is out of the room; the
\* broadcaster goes on to the end of its list, and the only exception that
\* ever leaves ws_track is raised before its first broadcast.
C13_FailureDoesNotAbort ==
    \A websocket \in Handles :
        LET c == conn[websocket]
        IN /\ c.at = "raised" => c.members = <<>>
           /\ InBroadcast(c) =>
                 /\ c.at \in {"receive", "returned"} => c.i = Len(c.members) + 1
                 /\ \A ws \in Tried(c) :
                       /\ transport[ws] = "open" => BagIn(c.payload, inbox[ws])
                       /\ ~BagIn(c.payload, inbox[ws]) => ws \notin Room(rooms, c.order_id)

\* a broadcast of a text frame is over: its list had three sockets, the send
\* to one raised, and a socket that came later in the list, not the
\* sender's, received the payload
C13_Witness ==
    \E websocket \in Handles :
        LET c == conn[websocket]
        IN /\ c.at = "receive"
           /\ Len(c.members) = 3
           /\ c.payload.type = "broadcast"
           /\ \E k, l \in 1..3 :
                 /\ k < l
                 /\ ~BagIn(c.payload, inbox[c.members[k]])
                 /\ c.members[l] # websocket
                 /\ BagIn(c.payload, inbox[c.members[l]])

\* C14: of a text frame, its sender receives one "echo" and no "broadcast",
\* and a socket that receives its "broadcast" receives it once and is not
\* the sender's.
C14_BroadcastExcludesSender ==
    \A websocket \in Handles :
        \A payload \in BagToSet(inbox[websocket]) :
            /\ payload.type = "echo"
                  => payload.ts = websocket /\ CopiesIn(payload, inbox[websocket]) = 1
            /\ payload.type = "broadcast"
                  => payload.ts # websocket /\ CopiesIn(payload, inbox[websocket]) = 1

\* C15: a connection whose handler has ended is out of its room, and the
\* last thing its handler did was to broadcast its "left" notice.
C15_LeftExactlyOnce ==
    \A websocket \in Handles :
        conn[websocket].at \in {"raised", "returned"}
            => /\ websocket \notin Room(rooms, conn[websocket].order_id)
               /\ conn[websocket].payload = Left(conn[websocket], websocket)

\* C16: while a connection's broadcast is in progress, no step of another
\* connection changes the members of the room it is broadcasting to.
C16_MutationExcluded ==
    [][\A websocket \in Handles :
          conn[websocket].at \in {"broadcast", "left"} /\ conn'[websocket] = conn[websocket]
              => Room(rooms', conn[websocket].order_id)
                   = Room(rooms, conn[websocket].order_id)]_vars

\* C17: a connection that is broadcasting a text frame and whose own peer
\* keeps reading gets back to receive_text, and every socket of its list
\* whose peer keeps reading receives the payload, whatever the other peers do.
C17_SlowPeerDoesNotStall ==
    \A websocket \in Handles :
        /\ conn[websocket].at = "broadcast"
              ~> conn[websocket].at = "receive" \/ transport[websocket] = "stalled"
        /\ \A ws \in Handles :
              (/\ conn[websocket].at = "broadcast"
               /\ \E k \in 1..Len(conn[websocket].members) : conn[websocket].members[k] = ws)
                 ~> (\/ BagIn(conn[websocket].payload, inbox[ws])
                     \/ transport[ws] = "stalled"
                     \/ transport[websocket] = "stalled")

\* the sockets that have received the greeting of `websocket`
Greeted(websocket) ==
    {ws \in Handles : BagIn(Hello(conn[websocket], websocket), inbox[ws])}

\* C18: the one hello.  A "hello" a socket has received is its own, with its
\* order id and its declared role, and it has received it once; a connection
\* past its greeting has received it and one not yet there has not; and a
\* connection whose greeting is about to reach its peer is a member of its
\* room.
C18_OneHello ==
    \A websocket \in Handles :
        /\ \A payload \in BagToSet(inbox[websocket]) :
              payload.type = "hello"
                  => /\ payload = Hello(conn[websocket], websocket)
                     /\ CopiesIn(payload, inbox[websocket]) = 1
        /\ conn[websocket].at \in {"request", "hello", "raised"}
              <=> Greeted(websocket) = {}
        /\ conn[websocket].at = "hello" /\ transport[websocket] = "open"
              => websocket \in Room(rooms, conn[websocket].order_id)

\* two sockets are in one room, each past its greeting and with nothing
\* received but its own hello
C18_Witness ==
    \E a, b \in Handles :
        /\ a # b
        /\ {a, b} \subseteq Room(rooms, conn[a].order_id)
        /\ conn[a].at = "receive" /\ conn[b].at = "receive"
        /\ inbox[a] = SetToBag({Hello(conn[a], a)})
        /\ inbox[b] = SetToBag({Hello(conn[b], b)})

----------------------------------------------------------------------------
(* Properties of estimate_quote *)

\* the subtotal of the call held, before it is rounded and clamped
HeldSubtotal ==
    quote_subtotal(estimate.res.miles, estimate.req.vehicle, estimate.req.item_type,
                   estimate.req.weight_lb, estimate.req.length_in, estimate.req.width_in,
                   estimate.req.height_in, estimate.req.weather, estimate.req.traffic)

\* C19: whatever the request, the price returned is at least 4.50 and at most
\* 999.00 and the ETA returned is a whole number of minutes, at least 5.
C19_PriceAndEtaBounded ==
    estimate # NoEstimate
        => /\ estimate.res.price \in 450..99900
           /\ estimate.res.eta \in Nat
           /\ estimate.res.eta >= 5

\* a call whose subtotal is under 4.50 has returned 4.50
C19_Witness ==
    /\ estimate # NoEstimate
    /\ HeldSubtotal < 440000
    /\ estimate.res.price = 450

\* C20: the tier returned is decided by the price returned: Saver under
\* 12.00, Standard from 12.00 and under 30.00, Priority from 30.00 and under
\* 80.00, "Pro Load" from 80.00.
C20_TierFromPrice ==
    estimate # NoEstimate
        => /\ estimate.res.tier = "Saver" <=> estimate.res.price < 1200
           /\ estimate.res.tier = "Standard"
                 <=> estimate.res.price >= 1200 /\ estimate.res.price < 3000
           /\ estimate.res.tier = "Priority"
                 <=> estimate.res.price >= 3000 /\ estimate.res.price < 8000
           /\ estimate.res.tier = "Pro Load" <=> estimate.res.price >= 8000

\* a call has returned exactly 30.00, and Priority
C20_Witness ==
    /\ estimate.res.price = 3000
    /\ estimate.res.tier = "Priority"

\* what estimate_quote returns on a request
quote_of(req) ==
    estimate_quote(req.pickup, req.dropoff, req.vehicle, req.item_type, req.quantity,
                   req.weight_lb, req.length_in, req.width_in, req.height_in,
                   req.weather, req.traffic)

\* C22: a call with a vehicle that is no key of VEHICLE returns what the same
\* call with vehicle car returns, one with an unknown item type what the same
\* call with general returns, one with an unknown weather what the same call
\* with clear returns, and one with an unknown traffic what the same call with
\* med returns.
C22_UnknownFallsBack ==
    estimate # NoEstimate
        => /\ estimate.req.vehicle \notin DOMAIN VEHICLE
                 => estimate.res = quote_of([estimate.req EXCEPT !.vehicle = "car"])
           /\ estimate.req.item_type \notin DOMAIN ITEM_MULT
                 => estimate.res = quote_of([estimate.req EXCEPT !.item_type = "general"])
           /\ estimate.req.weather \notin DOMAIN WEATHER
                 => estimate.res = quote_of([estimate.req EXCEPT !.weather = "clear"])
           /\ estimate.req.traffic \notin DOMAIN TRAFFIC
                 => estimate.res = quote_of([estimate.req EXCEPT !.traffic = "med"])

\* a call with no known category at all has returned a price off both bounds
C22_Witness ==
    /\ estimate.req.vehicle = "hovercraft"
    /\ estimate.req.item_type = "livestock"
    /\ estimate.req.weather = "fog"
    /\ estimate.req.traffic = "jam"
    /\ estimate.res.price \notin {0, 450, 99900}

\* the call held asked again, for more miles, what the call before had asked
Requoted ==
    /\ earlier # NoEstimate
    /\ estimate.res.miles > earlier.res.miles

\* C21 as stated: of two calls that differ in the trip only, the one with
\* more miles returns a strictly greater price and a strictly greater ETA.
C21_StrictlyIncreasing ==
    Requoted
        => /\ estimate.res.price > earlier.res.price
           /\ estimate.res.eta > earlier.res.eta

\* C21, amended: of two calls that differ in the trip only, the one with more
\* miles returns a price that is not less, and that is strictly greater unless
\* both prices are 4.50 or both are 999.00, and an ETA that is not less.
C21_Monotone ==
    Requoted
        => /\ estimate.res.price >= earlier.res.price
           /\ estimate.res.price = earlier.res.price
                 => estimate.res.price \in {450, 99900}
           /\ estimate.res.eta >= earlier.res.eta

\* a longer trip was quoted above the floor and under the cap, at the same
\* ETA as the shorter one
C21_Witness ==
    /\ Requoted
    /\ earlier.res.price > 450
    /\ estimate.res.price < 99900
    /\ estimate.res.price > earlier.res.price
    /\ estimate.res.eta = earlier.res.eta

----------------------------------------------------------------------------
(* Properties of fake_geocode *)

\* the address of the call held is empty or whitespace only
Blank == Strip(located.addr) = <<>>

\* C23: the call returns None for an empty or whitespace-only address, and
\* for every other address a point with 30.00 <= latitude < 80.00 and
\* -150.00 <= longitude < -100.00.
C23_InBands ==
    located # NoLocation
        => IF Blank
           THEN located.point = None
           ELSE /\ located.point # None
                /\ located.point[1] >= 3000 /\ located.point[1] < 8000
                /\ located.point[2] >= -15000 /\ located.point[2] < -10000

\* C24: the point returned for an address that is not blank is the point
\* returned for the address trimmed: blanks before and after it do not count.
C24_TrimmedSum ==
    located # NoLocation /\ ~Blank
        => located.point = fake_geocode(Strip(located.addr))

----------------------------------------------------------------------------
(* Properties of the quote routes *)

\* the tiers of a QuoteResult
Tiers == {"Saver", "Standard", "Priority", "Pro Load"}

\* the quote route in progress has answered with a quote
Quoted == quoted.route # "" /\ quoted.response.error = 0

\* price, ETA and tier of the quote it answered with
QuotedPrice ==
    IF quoted.route = "quote_estimate"
    THEN quoted.response.price_total ELSE quoted.response.price

QuotedEta ==
    IF quoted.route = "quote_estimate"
    THEN quoted.response.eta_min ELSE quoted.response.eta

\* C25: every quote a quote route answers with has a price from 4.50 to
\* 999.00, an ETA of at least 5 minutes and one of the four tiers, and the
\* price of every order in the table is from 4.50 to 999.00.
C25_WellFormedQuote ==
    /\ Quoted
          => /\ QuotedPrice >= 450 /\ QuotedPrice <= 99900
             /\ QuotedEta >= 5
             /\ quoted.response.tier \in Tiers
    /\ \A id \in DOMAIN orders :
          orders[id].price >= 450 /\ orders[id].price <= 99900

----------------------------------------------------------------------------
(* Properties of the histories of an order *)

\* C26: canceled is absorbing.  No step takes an order that is canceled to
\* another status, and the only request that succeeds on a canceled order is
\* a courier's or an admin's request for canceled.
C26_CanceledAbsorbing ==
    /\ [][\A id \in DOMAIN orders :
             orders[id].status = "canceled" => orders'[id].status = "canceled"]_vars
    /\ [](IsUpdate /\ call.seen = "canceled" /\ call.code = 200
             => /\ Users[call.user] \in {"courier", "admin"}
                /\ call.status = "canceled")

\* a canceled order was asked to be canceled again, with success, and to be
\* assigned, without
C26_Witness ==
    /\ IsUpdate /\ call.seen = "canceled"
    /\ orders[call.order_id].status = "canceled"
    /\ \/ call.status = "canceled" /\ call.code = 200
       \/ call.status = "assigned" /\ call.code = 409

\* the status before each status of the chain
Before(status) ==
    CASE status = "assigned" -> "pending"
      [] status = "picked_up" -> "assigned"
      [] status = "delivered" -> "picked_up"

\* C27: forward only along the chain.  A step that changes the status of an
\* order to assigned, picked_up or delivered finds it pending, assigned or
\* picked_up, in that order, and answers a request that no customer made.
C27_AlongTheChain ==
    [][\A id \in DOMAIN orders :
          (/\ orders'[id].status # orders[id].status
           /\ orders'[id].status \in {"assigned", "picked_up", "delivered"})
             => /\ orders[id].status = Before(orders'[id].status)
                /\ call'.op = "update_order_status"
                /\ call'.order_id = id
                /\ Users[call'.user] # "customer"]_vars

\* an order picked up has just been delivered
C27_Witness ==
    /\ IsUpdate /\ call.code = 200
    /\ call.seen = "picked_up" /\ call.status = "delivered"
    /\ orders[call.order_id].status = "delivered"

----------------------------------------------------------------------------
(* Properties of the rooms of different orders *)

\* C28: rooms are isolated.  A socket is a member of no room but the room of
\* the order id it connected with, and every payload it has received, echo,
\* broadcast and "left" included, carries that order id.
C28_RoomsIsolated ==
    \A websocket \in Handles :
        /\ \A order_id \in DOMAIN rooms :
              websocket \in rooms[order_id] => order_id = conn[websocket].order_id
        /\ \A payload \in DOMAIN inbox[websocket] :
              payload.order_id = conn[websocket].order_id

\* sockets 1 and 3 are in room 41 and socket 2, which joined between them, is
\* in room 42: socket 3 has received the broadcast of socket 1's text frame
\* and socket 2 nothing but its own greeting
C28_Witness ==
    /\ conn[1].order_id = "41" /\ conn[3].order_id = "41"
    /\ conn[2].order_id = "42"
    /\ 2 \in Room(rooms, "42")
    /\ \E payload \in BagToSet(inbox[3]) : payload.type = "broadcast" /\ payload.ts = 1
    /\ inbox[2] = SetToBag({Hello(conn[2], 2)})

====
